---- MODULE Spec2Model ----
(***************************************************************************)
(* PackBits (yetdragon/packbits-ts).                                       *)
(*                                                                         *)
(* Three encoders and two decoders live in the repository:                 *)
(*   - src/src/mod.ts             compress (every repeat >= 2 is a run),   *)
(*                                decompress + calculateDecompressedSize   *)
(*   - src/unnamed/part_000:32    compress (context-aware merge of R2)     *)
(*   - src/unnamed/part_000:232   compress (buffer-based, header stack),   *)
(*                                decompress + calculateSizeDecompressed   *)
(*                                                                         *)
(* Arrays are 0-indexed in the source; a Uint8Array is modelled as a       *)
(* sequence and read/written through Get/Put, which keep the typed-array   *)
(* semantics (a read outside the array is undefined, a write outside it    *)
(* is dropped, a stored value is reduced modulo 256).                      *)
(***************************************************************************)
EXTENDS Integers, Sequences, FiniteSets, TLC

VARIABLES
    alg,          \* which compress is called: "simple" | "context" | "buffer" | "none"
    dec,          \* which decompress is called: "modts" | "buffer"
    pc,           \* position in the call sequence
    data,         \* the raw input of compress
    packed,       \* the value compress returned = the input of decompress
    result,       \* the local `result` array of the running function
    writeIndex,   \* the local `writeIndex`
    readIndex,    \* the local `readIndex`
    literalStart, \* context-aware compress: `literalStart`
    literalCount, \* context-aware compress: `literalCount`
    absorbed,     \* history: what the last step of the context-aware scan did
    supplied,     \* buffer-based compress: TRUE when the caller passed `buffer`
    buffer,       \* buffer-based compress: `buffer`
    anchor,       \* buffer-based compress: `anchor`
    crnt,         \* buffer-based compress: `crnt`
    iRead,        \* buffer-based compress / decompress: `iRead`
    iStack,       \* buffer-based compress: `iStack`
    countLastLiteral, \* buffer-based compress: `countLastLiteral`
    iStackRead,   \* buffer-based compress: `iStackRead`
    iWrite,       \* buffer-based compress / decompress: `iWrite`
    runs,         \* history: the runs written so far by compress
    decoded,      \* the value decompress returned
    touched,      \* history: what the expansion pass of decompress read and wrote
    error         \* TRUE when the running function threw PackBitsError

ctxVars == <<literalStart, literalCount, absorbed>>

bufVars == <<supplied, buffer, anchor, crnt, iRead, iStack, countLastLiteral,
             iStackRead, iWrite>>

vars == <<alg, dec, pc, data, packed, result, writeIndex, readIndex, ctxVars, bufVars,
          runs, decoded, touched, error>>

----------------------------------------------------------------------------
(* Program constants *)

MAX_RUN_LENGTH == 128

(* Bounds of the model *)

MaxShort == 5
MaxPre == 1
MaxPost == 2
Slack == 2
MaxPacked == 4
MaxExtra == 1
MaxPeriod == 4
MaxRepeats == 3

----------------------------------------------------------------------------
(* Typed-array semantics *)

\* the value of an out-of-range read; no byte and no header expression equals it
Undefined == 0 - 4096

\* data[i] of a Uint8Array: undefined outside 0..length-1
Get(a, i) == IF i >= 0 /\ i < Len(a) THEN a[i + 1] ELSE Undefined

\* the number stored by `a[i] = v`: undefined becomes 0, integers wrap to a byte
ToUint8(v) == IF v = Undefined THEN 0 ELSE v % 256

\* a[i] = v: a write outside 0..length-1 is silently dropped
Put(a, i, v) == IF i >= 0 /\ i < Len(a) THEN [a EXCEPT ![i + 1] = ToUint8(v)] ELSE a

\* new Uint8Array(n)
NewArray(n) == [i \in 1..n |-> 0]

\* a.slice(0, end) / a.subarray(0, end)
Slice(a, end) == [i \in 1..(IF end < Len(a) THEN end ELSE Len(a)) |-> a[i]]

\* a loop of single-byte writes a[at + j] = src[from + j], j = 0..count-1
CopyBytes(a, at, src, from, count) ==
    [i \in 1..Len(a) |->
        IF i - 1 >= at /\ i - 1 < at + count
        THEN ToUint8(Get(src, from + (i - 1 - at)))
        ELSE a[i]]

\* a loop of single-byte writes a[at + j] = v, j = 0..count-1
FillBytes(a, at, v, count) ==
    [i \in 1..Len(a) |-> IF i - 1 >= at /\ i - 1 < at + count THEN ToUint8(v) ELSE a[i]]

\* the value of k at which `while (C(k)) k += 1` leaves the loop, started at lo
\* (hi is a value at which C is known to fail)
LoopExit(lo, hi, C(_)) ==
    CHOOSE k \in lo..hi : ~C(k) /\ \A q \in lo..(k - 1) : C(q)

Min(a, b) == IF a < b THEN a ELSE b

----------------------------------------------------------------------------
(* Inputs *)

Bytes == {0, 128, 255}
ByteAt == <<0, 128, 255>>

\* all byte sequences of length at most n
SeqsUpTo(n) == UNION {[1..k -> Bytes] : k \in 0..n}

\* m bytes, no two adjacent equal
Distinct(m) == [i \in 1..m |-> ByteAt[(i % 3) + 1]]

\* m copies of b
Same(b, m) == [i \in 1..m |-> b]

LongLengths == (MAX_RUN_LENGTH - Slack)..(MAX_RUN_LENGTH + Slack)

LongBodies == {Distinct(m) : m \in LongLengths} \cup {Same(0, m) : m \in LongLengths}

LongInputs ==
    {pre \o body \o post : pre \in SeqsUpTo(MaxPre), body \in LongBodies,
                           post \in SeqsUpTo(MaxPost)}

\* t copies of the pattern p, as the benchmark's data is built
Repeat(p, t) == [i \in 1..(t * Len(p)) |-> p[((i - 1) % Len(p)) + 1]]

PeriodicInputs ==
    {Repeat(p, t) : p \in SeqsUpTo(MaxPeriod) \ {<<>>}, t \in 2..MaxRepeats}

\* two long literal stretches around a short middle (the test L128-R2-L128)
TwoBodyInputs ==
    {Distinct(m1) \o mid \o Distinct(m2) :
        m1 \in LongLengths, mid \in SeqsUpTo(MaxPost), m2 \in LongLengths}

\* more than two full runs of one byte, and of bytes with no two neighbours equal
TwoRunInputs ==
    {Same(0, 2 * MAX_RUN_LENGTH + s) : s \in 0..Slack}
        \cup {Distinct(2 * MAX_RUN_LENGTH + s) : s \in 0..Slack}

Inputs == SeqsUpTo(MaxShort) \cup PeriodicInputs \cup LongInputs \cup TwoRunInputs

BufInputs == Inputs \cup TwoBodyInputs

----------------------------------------------------------------------------
(* compress of src/src/mod.ts *)

\* mutant: the result array holds only len(data) bytes
ResultCapacityHalf(n) == n

\* the size of the result array compress allocates
ResultCapacity(n) == 2 * n

\* mutant: the header of a replicate run, off by one
ReplicateHeaderOffByOne(runLength) == 256 - runLength

\* the header of a replicate run
ReplicateHeader(runLength) == 257 - runLength

\* mutant: the header of a literal run is its length
LiteralHeaderCount(count) == count

\* the header of a literal run
LiteralHeader(count) == count - 1

\* mutant: the cap on the repeat scan lets a run reach 129 bytes
ScanRepeatCap129(d, runStart, r) ==
    LoopExit(r, Len(d),
             LAMBDA k : k < Len(d) - 1 /\ Get(d, k) = Get(d, k + 1)
                        /\ k - runStart < MAX_RUN_LENGTH)

\* lines 55-61: advance readIndex over equal neighbours, at most 127 times
ScanRepeat(d, runStart, r) ==
    LoopExit(r, Len(d),
             LAMBDA k : k < Len(d) - 1 /\ Get(d, k) = Get(d, k + 1)
                        /\ k - runStart < MAX_RUN_LENGTH - 1)

\* lines 72-79: the literal bytes counted from r on (readIndex and literalCount
\* advance together)
ScanLiteral(d, r, count) ==
    LoopExit(count, MAX_RUN_LENGTH,
             LAMBDA c : r + (c - count) < Len(d) /\ c < MAX_RUN_LENGTH
                        /\ (r + (c - count) = Len(d) - 1
                            \/ Get(d, r + (c - count)) # Get(d, r + (c - count) + 1)))

\* one iteration of the loop of lines 51-87
SimpleIter(d, s) ==
    LET runStart == s.readIndex
        r1 == ScanRepeat(d, runStart, s.readIndex)
        runLength == r1 - runStart + 1
    IN  IF runLength > 1
        THEN [readIndex |-> r1 + 1,
              writeIndex |-> s.writeIndex + 2,
              result |-> Put(Put(s.result, s.writeIndex, ReplicateHeader(runLength)),
                             s.writeIndex + 1, Get(d, runStart)),
              run |-> [kind |-> "replicate", header |-> ReplicateHeader(runLength),
                       at |-> s.writeIndex, start |-> runStart, length |-> runLength,
                       payload |-> 1]]
        ELSE LET lc == ScanLiteral(d, r1, 0)
             IN  [readIndex |-> r1 + lc,
                  writeIndex |-> s.writeIndex + 1 + lc,
                  result |-> CopyBytes(Put(s.result, s.writeIndex, LiteralHeader(lc)),
                                       s.writeIndex + 1, d, r1, lc),
                  run |-> [kind |-> "literal", header |-> LiteralHeader(lc),
                           at |-> s.writeIndex, start |-> r1, length |-> lc,
                           payload |-> lc]]

\* lines 47-50: allocation
SimpleEnter ==
    /\ pc = "call" /\ alg = "simple"
    /\ result' = NewArray(ResultCapacity(Len(data)))
    /\ writeIndex' = 0
    /\ readIndex' = 0
    /\ pc' = "loop"
    /\ UNCHANGED <<alg, dec, touched, data, packed, ctxVars, bufVars, runs, decoded,
                   error>>

SimpleRun ==
    /\ pc = "loop" /\ alg = "simple"
    /\ readIndex < Len(data)
    /\ LET s == SimpleIter(data, [readIndex |-> readIndex, writeIndex |-> writeIndex,
                                  result |-> result])
       IN  /\ readIndex' = s.readIndex
           /\ writeIndex' = s.writeIndex
           /\ result' = s.result
           /\ runs' = Append(runs, s.run)
    /\ UNCHANGED <<alg, dec, touched, pc, data, packed, ctxVars, bufVars, decoded,
                   error>>

\* line 89
SimpleReturn ==
    /\ pc = "loop" /\ alg = "simple"
    /\ readIndex >= Len(data)
    /\ packed' = Slice(result, writeIndex)
    /\ pc' = "packed"
    /\ UNCHANGED <<alg, dec, touched, data, result, writeIndex, readIndex, ctxVars,
                   bufVars,
                   runs, decoded, error>>

----------------------------------------------------------------------------
(* compress of src/unnamed/part_000, lines 32-103 (context-aware) *)

\* lines 44-51 and 87-94: the number of equal bytes from r on, at most 128
CountRepeat(d, r, repeatCount) ==
    LoopExit(repeatCount, MAX_RUN_LENGTH,
             LAMBDA c : r + c < Len(d) /\ Get(d, r + c) = Get(d, r)
                        /\ c < MAX_RUN_LENGTH)

\* mutant: every repeat of two or more bytes starts a replicate run
ShouldStartRepeatRunAlways(repeatCount, count) ==
    repeatCount >= 2

\* lines 63-64
ShouldStartRepeatRun(repeatCount, count) ==
    repeatCount >= 3 \/ (repeatCount = 2 /\ count = 0)

\* line 71
BytesToAbsorb(repeatCount, count) == Min(repeatCount, MAX_RUN_LENGTH - count)

\* line 42: the condition of the inner loop
InnerCondition == readIndex < Len(data) /\ literalCount < MAX_RUN_LENGTH

\* lines 33-35
ContextEnter ==
    /\ pc = "call" /\ alg = "context"
    /\ result' = NewArray(ResultCapacity(Len(data)))
    /\ writeIndex' = 0
    /\ readIndex' = 0
    /\ pc' = "outer"
    /\ UNCHANGED <<alg, dec, touched, data, packed, ctxVars, bufVars, runs, decoded,
                   error>>

\* lines 37-40: a new pass of the outer loop opens an empty literal run
ContextOuter ==
    /\ pc = "outer" /\ alg = "context"
    /\ readIndex < Len(data)
    /\ literalStart' = readIndex
    /\ literalCount' = 0
    /\ pc' = "inner"
    /\ UNCHANGED <<alg, dec, touched, data, packed, result, writeIndex, readIndex,
                   absorbed,
                   bufVars, runs, decoded, error>>

\* lines 42-74, one pass of the inner loop that does not break: absorb
ContextAbsorb ==
    /\ pc = "inner" /\ alg = "context"
    /\ InnerCondition
    /\ LET repeatCount == CountRepeat(data, readIndex, 1)
           bytesToAbsorb == BytesToAbsorb(repeatCount, literalCount)
       IN  /\ ~ShouldStartRepeatRun(repeatCount, literalCount)
           /\ literalCount' = literalCount + bytesToAbsorb
           /\ readIndex' = readIndex + bytesToAbsorb
           /\ absorbed' = [at |-> readIndex, repeatCount |-> repeatCount,
                           count |-> literalCount, bytes |-> bytesToAbsorb]
    /\ UNCHANGED <<alg, dec, touched, pc, data, packed, result, writeIndex,
                   literalStart,
                   bufVars, runs, decoded, error>>

\* lines 76-82: the literal run written when the inner loop is left
WriteLiteral(res, w) ==
    IF literalCount > 0
    THEN CopyBytes(Put(res, w, LiteralHeader(literalCount)), w + 1, data, literalStart,
                   literalCount)
    ELSE res

\* the inner loop is left (its condition fails, or line 67 breaks); lines 76-99
ContextFlush ==
    /\ pc = "inner" /\ alg = "context"
    /\ \/ ~InnerCondition
       \/ ShouldStartRepeatRun(CountRepeat(data, readIndex, 1), literalCount)
    /\ LET w1 == IF literalCount > 0 THEN writeIndex + 1 + literalCount ELSE writeIndex
           res1 == WriteLiteral(result, writeIndex)
           runs1 == IF literalCount > 0
                    THEN Append(runs, [kind |-> "literal",
                                       header |-> LiteralHeader(literalCount),
                                       at |-> writeIndex, start |-> literalStart,
                                       length |-> literalCount, payload |-> literalCount])
                    ELSE runs
           repeatCount == CountRepeat(data, readIndex, 1)
       IN  IF readIndex < Len(data) /\ literalCount < MAX_RUN_LENGTH
           THEN /\ result' = Put(Put(res1, w1, ReplicateHeader(repeatCount)),
                                 w1 + 1, Get(data, readIndex))
                /\ writeIndex' = w1 + 2
                /\ readIndex' = readIndex + repeatCount
                /\ runs' = Append(runs1, [kind |-> "replicate",
                                          header |-> ReplicateHeader(repeatCount),
                                          at |-> w1, start |-> readIndex,
                                          length |-> repeatCount, payload |-> 1])
           ELSE /\ result' = res1
                /\ writeIndex' = w1
                /\ readIndex' = readIndex
                /\ runs' = runs1
    /\ pc' = "outer"
    /\ UNCHANGED <<alg, dec, touched, data, packed, ctxVars, bufVars, decoded, error>>

\* line 102
ContextReturn ==
    /\ pc = "outer" /\ alg = "context"
    /\ readIndex >= Len(data)
    /\ packed' = Slice(result, writeIndex)
    /\ pc' = "packed"
    /\ UNCHANGED <<alg, dec, touched, data, result, writeIndex, readIndex, ctxVars,
                   bufVars,
                   runs, decoded, error>>

----------------------------------------------------------------------------
(* decompress and calculateDecompressedSize of src/src/mod.ts              *)
(* (src/unnamed/part_000 lines 117-178 are the same code)                  *)

Threw == [threw |-> TRUE, size |-> 0]

\* mutant: the size pass counts a replicate run one byte short
RECURSIVE CalculateDecompressedSizeShort(_, _, _)
CalculateDecompressedSizeShort(d, index, size) ==
    IF ~(index < Len(d)) THEN [threw |-> FALSE, size |-> size]
    ELSE LET count == Get(d, index)
             i1 == index + 1
         IN  IF i1 >= Len(d) THEN Threw
             ELSE IF count < MAX_RUN_LENGTH
                  THEN LET runLength == count + 1
                       IN  IF i1 + runLength > Len(d) THEN Threw
                           ELSE CalculateDecompressedSizeShort(d, i1 + runLength,
                                                          size + runLength)
             ELSE IF count > MAX_RUN_LENGTH
                  THEN CalculateDecompressedSizeShort(d, i1 + 1, size + (256 - count))
             ELSE CalculateDecompressedSizeShort(d, i1, size)

\* lines 138-167, the loop from `index` on with `size` accumulated so far
RECURSIVE CalculateDecompressedSize(_, _, _)
CalculateDecompressedSize(d, index, size) ==
    IF ~(index < Len(d)) THEN [threw |-> FALSE, size |-> size]
    ELSE LET count == Get(d, index)
             i1 == index + 1
         IN  IF i1 >= Len(d) THEN Threw
             ELSE IF count < MAX_RUN_LENGTH
                  THEN LET runLength == count + 1
                       IN  IF i1 + runLength > Len(d) THEN Threw
                           ELSE CalculateDecompressedSize(d, i1 + runLength,
                                                          size + runLength)
             ELSE IF count > MAX_RUN_LENGTH
                  THEN CalculateDecompressedSize(d, i1 + 1, size + (257 - count))
             ELSE CalculateDecompressedSize(d, i1, size)

\* one iteration of the loop of lines 112-133
DecompressIter(d, s) ==
    LET count == Get(d, s.readIndex)
        r == s.readIndex + 1
    IN  IF count < MAX_RUN_LENGTH
        THEN LET runLength == count + 1
             IN  [readIndex |-> r + runLength,
                  writeIndex |-> s.writeIndex + runLength,
                  result |-> CopyBytes(s.result, s.writeIndex, d, r, runLength)]
        ELSE IF count > MAX_RUN_LENGTH
        THEN LET runLength == 257 - count
             IN  [readIndex |-> r + 1,
                  writeIndex |-> s.writeIndex + runLength,
                  result |-> FillBytes(s.result, s.writeIndex, Get(d, r), runLength)]
        ELSE [readIndex |-> r, writeIndex |-> s.writeIndex, result |-> s.result]

\* nothing read or written yet
NoTouch == [writes |-> <<>>, outside |-> FALSE, lastRead |-> 0 - 1]

\* one pass of the loop of lines 112-133 read the header and its payload, the
\* indices below r1 of the packed bytes, and wrote the indices w0..w1-1 of result
Touch(t, r1, w0, w1) ==
    [writes |-> [i \in 1..Len(t.writes) |->
                    t.writes[i] + (IF i - 1 >= w0 /\ i - 1 < w1 THEN 1 ELSE 0)],
     outside |-> t.outside \/ w1 > Len(t.writes),
     lastRead |-> IF r1 - 1 > t.lastRead THEN r1 - 1 ELSE t.lastRead]

\* lines 107-111: the size pass, then the allocation
DecompressEnter ==
    /\ pc = "packed" /\ dec = "modts"
    /\ LET c == CalculateDecompressedSize(packed, 0, 0)
       IN  IF c.threw
           THEN /\ error' = TRUE
                /\ pc' = "thrown"
                /\ UNCHANGED <<result, writeIndex, readIndex, touched>>
           ELSE /\ result' = NewArray(c.size)
                /\ writeIndex' = 0
                /\ readIndex' = 0
                /\ touched' = [NoTouch EXCEPT !.writes = NewArray(c.size)]
                /\ pc' = "expand"
                /\ error' = FALSE
    /\ UNCHANGED <<alg, dec, data, packed, ctxVars, bufVars, runs, decoded>>

DecompressRun ==
    /\ pc = "expand" /\ dec = "modts"
    /\ readIndex < Len(packed)
    /\ LET s == DecompressIter(packed, [readIndex |-> readIndex,
                                        writeIndex |-> writeIndex, result |-> result])
       IN  /\ readIndex' = s.readIndex
           /\ writeIndex' = s.writeIndex
           /\ result' = s.result
           /\ touched' = Touch(touched, s.readIndex, writeIndex, s.writeIndex)
    /\ UNCHANGED <<alg, dec, pc, data, packed, ctxVars, bufVars, runs,
                   decoded, error>>

\* line 135
DecompressReturn ==
    /\ pc = "expand" /\ dec = "modts"
    /\ readIndex >= Len(packed)
    /\ decoded' = result
    /\ pc' = "done"
    /\ UNCHANGED <<alg, dec, touched, data, packed, result, writeIndex, readIndex,
                   ctxVars,
                   bufVars, runs, error>>

----------------------------------------------------------------------------
(* compress of src/unnamed/part_000, lines 232-383 (buffer-based)          *)
(*                                                                         *)
(* The run headers are first stacked downward from the end of `buffer`     *)
(* (collection), then read back from the end while the packed bytes are    *)
(* written upward from index 0 (write phase).  One action is one pass of   *)
(* the collection loop `loop:` or one pass of the write loop.              *)

COPY_THRESHOLD == 32

\* mutant: the least buffer length rounded down
MinBufferLengthFloor(n) == (3 * n) \div 2

\* Math.ceil(1.5 * n)
MinBufferLength(n) == (3 * n + 1) \div 2

\* buffer[iStack--] = n, and the new countLastLiteral
PushRun(s, n, count) ==
    [s EXCEPT !.buffer = Put(s.buffer, s.iStack, n),
              !.iStack = s.iStack - 1,
              !.countLastLiteral = count]

\* countLastLiteral += add; buffer[iStack + 1] = countLastLiteral - 1
MergeIntoLastLiteral(s, add) ==
    [s EXCEPT !.countLastLiteral = s.countLastLiteral + add,
              !.buffer = Put(s.buffer, s.iStack + 1, s.countLastLiteral + add - 1)]

\* mutant: a merged pair of equal bytes is counted as one byte
CloseReplicateMergeOne(s, n) ==
    IF n = 255 /\ s.countLastLiteral > 0 /\ s.countLastLiteral + 2 <= 128
    THEN MergeIntoLastLiteral(s, 1)
    ELSE PushRun(s, n, 0)

\* mutant: a pair is merged into the last literal run however long that run is
CloseReplicateNoCap(s, n) ==
    IF n = 255 /\ s.countLastLiteral > 0
    THEN MergeIntoLastLiteral(s, 2)
    ELSE PushRun(s, n, 0)

\* lines 265-271 and 277-283: a replicate run with header n ends
CloseReplicate(s, n) ==
    IF n = 255 /\ s.countLastLiteral > 0 /\ s.countLastLiteral + 2 <= 128
    THEN MergeIntoLastLiteral(s, 2)
    ELSE PushRun(s, n, 0)

\* mutant: a literal run is merged into the last one however long that one is
CloseLiteralNoCap(s, n) ==
    IF s.countLastLiteral > 0
    THEN MergeIntoLastLiteral(s, n + 1)
    ELSE PushRun(s, n, n + 1)

\* lines 301-307 and 328-334: a literal run of n + 1 bytes ends
CloseLiteral(s, n) ==
    IF s.countLastLiteral > 0 /\ s.countLastLiteral + n + 1 <= 128
    THEN MergeIntoLastLiteral(s, n + 1)
    ELSE PushRun(s, n, n + 1)

\* mutant: the literal run before two equal bytes is counted one byte long
CloseLiteralBeforeRepeatMiscount(s, n) ==
    IF s.countLastLiteral > 0 /\ s.countLastLiteral + n <= 128
    THEN MergeIntoLastLiteral(s, n)
    ELSE PushRun(s, n - 1, n + 1)

\* lines 313-319: a literal run of n bytes ends before two equal bytes
CloseLiteralBeforeRepeat(s, n) ==
    IF s.countLastLiteral > 0 /\ s.countLastLiteral + n <= 128
    THEN MergeIntoLastLiteral(s, n)
    ELSE PushRun(s, n - 1, n)

\* lines 343-348: the last byte of the input stands alone
CloseLastByte(s) ==
    IF s.countLastLiteral > 0 /\ s.countLastLiteral + 1 <= 128
    THEN MergeIntoLastLiteral(s, 1)
    ELSE PushRun(s, 0, s.countLastLiteral)

\* lines 341-351, the code after the block `gotoBreakAfterAnchor`
AfterAnchor(d, s) ==
    IF s.iRead >= Len(d)
    THEN [CloseLastByte(s) EXCEPT !.next = "write"]
    ELSE [s EXCEPT !.crnt = Get(d, s.iRead), !.iRead = s.iRead + 1, !.next = "loop"]

\* lines 337-339, then the code after the block
NextAnchor(d, s) ==
    IF s.iRead >= Len(d)
    THEN [s EXCEPT !.next = "write"]
    ELSE AfterAnchor(d, [s EXCEPT !.anchor = Get(d, s.iRead), !.iRead = s.iRead + 1])

\* lines 259-292: anchor = crnt.  m passes of the do-loop read a byte equal to anchor
ReplicateBranch(d, s) ==
    LET r0 == s.iRead
        m == LoopExit(0, 126,
                      LAMBDA k : r0 + k < Len(d) /\ Get(d, r0 + k) = s.anchor /\ k < 126)
        n == 255 - m
    IN  IF m = 126
        THEN \* `while (n > 129)` fails: 128 equal bytes
             NextAnchor(d, PushRun([s EXCEPT !.iRead = r0 + m], n, 0))
        ELSE IF r0 + m >= Len(d)
        THEN \* line 263: end of input
             [CloseReplicate([s EXCEPT !.iRead = r0 + m], n) EXCEPT !.next = "write"]
        ELSE \* line 276: another byte
             AfterAnchor(d, [CloseReplicate([s EXCEPT !.iRead = r0 + m + 1], n)
                                EXCEPT !.anchor = Get(d, r0 + m),
                                       !.crnt = Get(d, r0 + m)])

\* lines 293-335: anchor # crnt.  m passes of the do-loop read a byte other than prev
LiteralBranch(d, s) ==
    LET r0 == s.iRead
        prevAt(k) == IF k = 0 THEN s.crnt ELSE Get(d, r0 + k - 1)
        m == LoopExit(0, 126,
                      LAMBDA k : r0 + k < Len(d) /\ Get(d, r0 + k) # prevAt(k) /\ k < 126)
        n == 1 + m
    IN  IF m = 126
        THEN \* `while (n < 127)` fails: 128 literal bytes
             NextAnchor(d, CloseLiteral([s EXCEPT !.iRead = r0 + m,
                                                  !.crnt = prevAt(m)], n))
        ELSE IF r0 + m >= Len(d)
        THEN \* line 299: end of input
             [CloseLiteral([s EXCEPT !.iRead = r0 + m, !.crnt = prevAt(m)], n)
                 EXCEPT !.next = "write"]
        ELSE \* line 312: two equal bytes
             [CloseLiteralBeforeRepeat([s EXCEPT !.iRead = r0 + m + 1,
                                                 !.crnt = Get(d, r0 + m)], n)
                 EXCEPT !.anchor = prevAt(m), !.next = "loop"]

\* one pass of the loop `loop:` of lines 256-352
CollectIter(d, s) ==
    IF s.anchor = s.crnt THEN ReplicateBranch(d, s) ELSE LiteralBranch(d, s)

\* lines 233-238 with a buffer that is too small
BufferTooSmall ==
    /\ pc = "call" /\ alg = "buffer"
    /\ supplied /\ Len(buffer) < MinBufferLength(Len(data))
    /\ error' = TRUE
    /\ pc' = "thrown"
    /\ UNCHANGED <<alg, dec, touched, data, packed, result, writeIndex, readIndex,
                   ctxVars,
                   bufVars, runs, decoded>>

\* lines 233-253
BufferEnter ==
    /\ pc = "call" /\ alg = "buffer"
    /\ ~(supplied /\ Len(buffer) < MinBufferLength(Len(data)))
    /\ LET b == IF supplied THEN buffer ELSE NewArray(MinBufferLength(Len(data)))
       IN  IF Len(data) = 0
           THEN /\ buffer' = b
                /\ packed' = Slice(b, 0)
                /\ pc' = "packed"
                /\ UNCHANGED <<anchor, crnt, iRead, iStack, countLastLiteral, runs>>
           ELSE IF Len(data) = 1
           THEN /\ buffer' = Put(Put(b, 0, 0), 1, Get(data, 0))
                /\ packed' = Slice(Put(Put(b, 0, 0), 1, Get(data, 0)), 2)
                /\ runs' = <<[kind |-> "literal", header |-> 0, at |-> 0, start |-> 0,
                              length |-> 1, payload |-> 1]>>
                /\ pc' = "packed"
                /\ UNCHANGED <<anchor, crnt, iRead, iStack, countLastLiteral>>
           ELSE /\ buffer' = b
                /\ anchor' = Get(data, 0)
                /\ crnt' = Get(data, 1)
                /\ iRead' = 2
                /\ iStack' = Len(b) - 1
                /\ countLastLiteral' = 0
                /\ pc' = "collect"
                /\ UNCHANGED <<packed, runs>>
    /\ UNCHANGED <<alg, dec, touched, data, result, writeIndex, readIndex, ctxVars,
                   supplied,
                   iStackRead, iWrite, decoded, error>>

\* lines 256-352, one pass; leaving the loop starts the write phase (lines 355-357)
BufferCollect ==
    /\ pc = "collect" /\ alg = "buffer"
    /\ LET s == CollectIter(data, [anchor |-> anchor, crnt |-> crnt, iRead |-> iRead,
                                   iStack |-> iStack, buffer |-> buffer,
                                   countLastLiteral |-> countLastLiteral,
                                   next |-> "loop"])
       IN  /\ anchor' = s.anchor
           /\ crnt' = s.crnt
           /\ iStack' = s.iStack
           /\ buffer' = s.buffer
           /\ countLastLiteral' = s.countLastLiteral
           /\ IF s.next = "write"
              THEN /\ iRead' = 0
                   /\ iStackRead' = Len(buffer) - 1
                   /\ iWrite' = 0
                   /\ pc' = "write"
              ELSE /\ iRead' = s.iRead
                   /\ UNCHANGED <<iStackRead, iWrite, pc>>
    /\ UNCHANGED <<alg, dec, touched, data, packed, result, writeIndex, readIndex,
                   ctxVars,
                   supplied, runs, decoded, error>>

\* buffer.set(src.subarray(from, from + count), at).  subarray clamps to src; set
\* throws a RangeError when the source does not fit
SetFits(a, at, src, from, count) ==
    at + (Min(from + count, Len(src)) - Min(from, Len(src))) <= Len(a)

SetBytes(a, at, src, from, count) ==
    CopyBytes(a, at, src, from, Min(from + count, Len(src)) - Min(from, Len(src)))

\* one pass of the loop of lines 359-380
WriteIter(d, s) ==
    LET n == Get(s.buffer, s.iStackRead)
        sr == s.iStackRead - 1
    IN  IF n > 128
        THEN [s EXCEPT !.iStackRead = sr,
                       !.buffer = Put(Put(s.buffer, s.iWrite, n), s.iWrite + 1,
                                      Get(d, s.iRead)),
                       !.iWrite = s.iWrite + 2,
                       !.iRead = s.iRead + (257 - n),
                       !.run = [kind |-> "replicate", header |-> n, at |-> s.iWrite,
                                start |-> s.iRead, length |-> 257 - n, payload |-> 1]]
        ELSE IF n < 128
        THEN LET runLength == n + 1
                 b1 == Put(s.buffer, s.iWrite, n)
                 run == [kind |-> "literal", header |-> n, at |-> s.iWrite,
                         start |-> s.iRead, length |-> runLength, payload |-> runLength]
             IN  IF runLength >= COPY_THRESHOLD
                 THEN IF SetFits(b1, s.iWrite + 1, d, s.iRead, runLength)
                      THEN [s EXCEPT !.iStackRead = sr,
                                     !.buffer = SetBytes(b1, s.iWrite + 1, d, s.iRead,
                                                         runLength),
                                     !.iWrite = s.iWrite + 1 + runLength,
                                     !.iRead = s.iRead + runLength,
                                     !.run = run]
                      ELSE [s EXCEPT !.iStackRead = sr, !.buffer = b1,
                                     !.iWrite = s.iWrite + 1, !.rangeError = TRUE]
                 ELSE [s EXCEPT !.iStackRead = sr,
                                !.buffer = CopyBytes(b1, s.iWrite + 1, d, s.iRead,
                                                     runLength),
                                !.iWrite = s.iWrite + 1 + runLength,
                                !.iRead = s.iRead + runLength,
                                !.run = run]
        ELSE [s EXCEPT !.iStackRead = sr, !.run = [kind |-> "noop", header |-> n,
                       at |-> s.iWrite, start |-> s.iRead, length |-> 0, payload |-> 0]]

BufferWrite ==
    /\ pc = "write" /\ alg = "buffer"
    /\ iStackRead > iStack
    /\ LET s == WriteIter(data, [buffer |-> buffer, iStackRead |-> iStackRead,
                                 iWrite |-> iWrite, iRead |-> iRead,
                                 run |-> [kind |-> "none"], rangeError |-> FALSE])
       IN  /\ buffer' = s.buffer
           /\ iStackRead' = s.iStackRead
           /\ iWrite' = s.iWrite
           /\ iRead' = s.iRead
           /\ IF s.rangeError
              THEN /\ pc' = "rangeError"
                   /\ runs' = runs
              ELSE /\ pc' = pc
                   /\ runs' = Append(runs, s.run)
    /\ UNCHANGED <<alg, dec, touched, data, packed, result, writeIndex, readIndex,
                   ctxVars,
                   supplied, anchor, crnt, iStack, countLastLiteral, decoded, error>>

\* line 382
BufferReturn ==
    /\ pc = "write" /\ alg = "buffer"
    /\ ~(iStackRead > iStack)
    /\ packed' = Slice(buffer, iWrite)
    /\ pc' = "packed"
    /\ UNCHANGED <<alg, dec, touched, data, result, writeIndex, readIndex, ctxVars,
                   bufVars, runs,
                   decoded, error>>

----------------------------------------------------------------------------
(* decompress and calculateSizeDecompressed of src/unnamed/part_000,       *)
(* lines 395-460 (the module of the buffer-based compress)                 *)

\* mutant: the size pass without the check of the replicate run's byte
RECURSIVE CalculateSizeNoReplicateCheck(_, _, _)
CalculateSizeNoReplicateCheck(d, i, size) ==
    IF ~(i < Len(d)) THEN [threw |-> FALSE, size |-> size]
    ELSE LET n == Get(d, i)
             i1 == i + 1
         IN  IF n > 128
             THEN CalculateSizeNoReplicateCheck(d, i1 + 1, size + (257 - n))
             ELSE IF n < 128
             THEN LET runLength == n + 1
                  IN  IF i1 + runLength > Len(d) THEN Threw
                      ELSE CalculateSizeNoReplicateCheck(d, i1 + runLength,
                                                         size + runLength)
             ELSE CalculateSizeNoReplicateCheck(d, i1, size)

\* lines 434-460, the loop from `i` on with `size` accumulated so far
RECURSIVE CalculateSizeDecompressed(_, _, _)
CalculateSizeDecompressed(d, i, size) ==
    IF ~(i < Len(d)) THEN [threw |-> FALSE, size |-> size]
    ELSE LET n == Get(d, i)
             i1 == i + 1
         IN  IF n > 128
             THEN IF i1 >= Len(d) THEN Threw
                  ELSE CalculateSizeDecompressed(d, i1 + 1, size + (257 - n))
             ELSE IF n < 128
             THEN LET runLength == n + 1
                  IN  IF i1 + runLength > Len(d) THEN Threw
                      ELSE CalculateSizeDecompressed(d, i1 + runLength, size + runLength)
             ELSE CalculateSizeDecompressed(d, i1, size)

\* result.fill(v, at, at + count): clamped to the array
FillRange(a, at, v, count) == FillBytes(a, at, v, count)

\* one pass of the loop of lines 401-429
BufDecompressIter(d, s) ==
    LET n == Get(d, s.iRead)
        r == s.iRead + 1
    IN  IF n > 128
        THEN LET runLength == 257 - n
                 byte == Get(d, r)
             IN  [s EXCEPT !.iRead = r + 1,
                           !.iWrite = s.iWrite + runLength,
                           !.result = IF runLength >= COPY_THRESHOLD
                                      THEN FillRange(s.result, s.iWrite, byte, runLength)
                                      ELSE FillBytes(s.result, s.iWrite, byte, runLength)]
        ELSE IF n < 128
        THEN LET runLength == n + 1
             IN  IF runLength >= COPY_THRESHOLD
                 THEN IF SetFits(s.result, s.iWrite, d, r, runLength)
                      THEN [s EXCEPT !.iRead = r + runLength,
                                     !.iWrite = s.iWrite + runLength,
                                     !.result = SetBytes(s.result, s.iWrite, d, r,
                                                         runLength)]
                      ELSE [s EXCEPT !.iRead = r, !.rangeError = TRUE]
                 ELSE [s EXCEPT !.iRead = r + runLength,
                                !.iWrite = s.iWrite + runLength,
                                !.result = CopyBytes(s.result, s.iWrite, d, r, runLength)]
        ELSE [s EXCEPT !.iRead = r]

\* lines 396-399: the size pass, then the allocation
BufDecompressEnter ==
    /\ pc = "packed" /\ dec = "buffer"
    /\ LET c == CalculateSizeDecompressed(packed, 0, 0)
       IN  IF c.threw
           THEN /\ error' = TRUE
                /\ pc' = "thrown"
                /\ UNCHANGED <<result, iRead, iWrite>>
           ELSE /\ result' = NewArray(c.size)
                /\ iRead' = 0
                /\ iWrite' = 0
                /\ pc' = "expand"
                /\ error' = FALSE
    /\ UNCHANGED <<alg, dec, touched, data, packed, writeIndex, readIndex, ctxVars,
                   supplied,
                   buffer, anchor, crnt, iStack, countLastLiteral, iStackRead, runs,
                   decoded>>

BufDecompressRun ==
    /\ pc = "expand" /\ dec = "buffer"
    /\ iRead < Len(packed)
    /\ LET s == BufDecompressIter(packed, [iRead |-> iRead, iWrite |-> iWrite,
                                           result |-> result, rangeError |-> FALSE])
       IN  /\ iRead' = s.iRead
           /\ iWrite' = s.iWrite
           /\ result' = s.result
           /\ pc' = IF s.rangeError THEN "rangeError" ELSE pc
    /\ UNCHANGED <<alg, dec, touched, data, packed, writeIndex, readIndex, ctxVars,
                   supplied,
                   buffer, anchor, crnt, iStack, countLastLiteral, iStackRead, runs,
                   decoded, error>>

\* line 431
BufDecompressReturn ==
    /\ pc = "expand" /\ dec = "buffer"
    /\ iRead >= Len(packed)
    /\ decoded' = result
    /\ pc' = "done"
    /\ UNCHANGED <<alg, dec, touched, data, packed, result, writeIndex, readIndex,
                   ctxVars,
                   bufVars, runs, error>>

----------------------------------------------------------------------------
(* Specification: compress of src/src/mod.ts or the context-aware compress *)
(* on an input, then decompress on what it returned                        *)

NoAbsorb == [at |-> 0, repeatCount |-> 0, count |-> 0, bytes |-> 0]

InitLocals ==
    /\ packed = <<>>
    /\ result = <<>>
    /\ writeIndex = 0
    /\ readIndex = 0
    /\ literalStart = 0
    /\ literalCount = 0
    /\ absorbed = NoAbsorb
    /\ anchor = 0
    /\ crnt = 0
    /\ iRead = 0
    /\ iStack = 0
    /\ countLastLiteral = 0
    /\ iStackRead = 0
    /\ iWrite = 0
    /\ runs = <<>>
    /\ decoded = <<>>
    /\ touched = NoTouch
    /\ error = FALSE

Init ==
    /\ alg \in {"simple", "context"}
    /\ dec = "modts"
    /\ pc = "call"
    /\ data \in Inputs
    /\ supplied = FALSE
    /\ buffer = <<>>
    /\ InitLocals

Next ==
    \/ SimpleEnter
    \/ SimpleRun
    \/ SimpleReturn
    \/ ContextEnter
    \/ ContextOuter
    \/ ContextAbsorb
    \/ ContextFlush
    \/ ContextReturn
    \/ DecompressEnter
    \/ DecompressRun
    \/ DecompressReturn

Spec == Init /\ [][Next]_vars

----------------------------------------------------------------------------
(* Specification: the buffer-based compress on an input, with no buffer or *)
(* with a caller's buffer, then the decompress of its module               *)

BufferLengths(n) ==
    {0} \cup {k \in (MinBufferLength(n) - 1)..(MinBufferLength(n) + MaxExtra) : k >= 0}

InitBuf ==
    /\ alg = "buffer"
    /\ dec = "buffer"
    /\ pc = "call"
    /\ data \in BufInputs
    /\ \/ supplied = FALSE /\ buffer = <<>>
       \/ \* a caller's buffer holds whatever the caller left in it
          /\ supplied = TRUE
          /\ \E k \in BufferLengths(Len(data)) : buffer = [i \in 1..k |-> 255]
    /\ InitLocals

NextBuf ==
    \/ BufferTooSmall
    \/ BufferEnter
    \/ BufferCollect
    \/ BufferWrite
    \/ BufferReturn
    \/ BufDecompressEnter
    \/ BufDecompressRun
    \/ BufDecompressReturn

SpecBuf == InitBuf /\ [][NextBuf]_vars

----------------------------------------------------------------------------
(* Specification: both decompress functions on arbitrary packed bytes      *)

PackedBytes == {0, 1, 127, 128, 129, 255}

PackedSeqsUpTo(n) == UNION {[1..k -> PackedBytes] : k \in 0..n}

\* a 128-byte literal run or a long replicate run, between short arbitrary bytes
LongPacked ==
    {<<127>> \o Same(0, m) \o post : m \in LongLengths, post \in PackedSeqsUpTo(1)}

PackedInputs == PackedSeqsUpTo(MaxPacked) \cup LongPacked

InitDec ==
    /\ alg = "none"
    /\ dec \in {"modts", "buffer"}
    /\ pc = "packed"
    /\ data = <<>>
    /\ supplied = FALSE
    /\ buffer = <<>>
    /\ packed \in PackedInputs
    /\ result = <<>>
    /\ writeIndex = 0
    /\ readIndex = 0
    /\ literalStart = 0
    /\ literalCount = 0
    /\ absorbed = NoAbsorb
    /\ anchor = 0
    /\ crnt = 0
    /\ iRead = 0
    /\ iStack = 0
    /\ countLastLiteral = 0
    /\ iStackRead = 0
    /\ iWrite = 0
    /\ runs = <<>>
    /\ decoded = <<>>
    /\ touched = NoTouch
    /\ error = FALSE

NextDec ==
    \/ DecompressEnter
    \/ DecompressRun
    \/ DecompressReturn
    \/ BufDecompressEnter
    \/ BufDecompressRun
    \/ BufDecompressReturn

SpecDec == InitDec /\ [][NextDec]_vars

----------------------------------------------------------------------------
(* Properties *)

Failed == pc \in {"thrown", "rangeError"}

\* the calls the model makes run to their end
Terminated == pc \in {"done", "thrown", "rangeError"}

RunSet == {runs[i] : i \in 1..Len(runs)}

\* C1: round trip of src/src/mod.ts: for every byte sequence x, compress(x) and
\* then decompress run to their end without an error, and decompress returns x.
C1_RoundTripSimple ==
    alg = "simple" =>
        /\ ~Failed
        /\ pc = "done" => decoded = data

C1_Witness ==
    /\ alg = "simple" /\ pc = "done"
    /\ Len(data) > MAX_RUN_LENGTH
    /\ Len(runs) >= 3
    /\ decoded = data

\* the buffer the caller passed is shorter than ceil(1.5 * len(data))
TooSmall == supplied /\ Len(buffer) < MinBufferLength(Len(data))

\* a literal run that holds two equal neighbours: a merged length-2 repeat
HoldsPair(r) ==
    /\ r.kind = "literal"
    /\ \E q \in r.start..(r.start + r.length - 2) : Get(data, q) = Get(data, q + 1)

\* C2: round trip of the buffer-based compress: for every byte sequence x and
\* every buffer of length >= ceil(1.5 * len(x)), or none, compress(x, buffer) and
\* then decompress run to their end without an error, and decompress returns x.
C2_RoundTripBuffer ==
    (alg = "buffer" /\ ~TooSmall) =>
        /\ ~Failed
        /\ pc = "done" => decoded = data

C2_Witness ==
    /\ alg = "buffer" /\ pc = "done"
    /\ supplied /\ Len(buffer) = MinBufferLength(Len(data))
    /\ Len(data) > MAX_RUN_LENGTH
    /\ \E r \in RunSet : HoldsPair(r)
    /\ decoded = data

\* the stream read header by header from offset i: some header below 128 is
\* followed by fewer than header + 1 bytes, or some header above 128 by no byte
RECURSIVE TruncatedFrom(_, _)
TruncatedFrom(p, i) ==
    IF i >= Len(p) THEN FALSE
    ELSE LET h == p[i + 1]
             rest == Len(p) - (i + 1)
         IN  IF h < 128 THEN rest < h + 1 \/ TruncatedFrom(p, i + 1 + (h + 1))
             ELSE IF h > 128 THEN rest < 1 \/ TruncatedFrom(p, i + 2)
             ELSE TruncatedFrom(p, i + 1)

Truncated(p) == TruncatedFrom(p, 0)

\* C3: decoding a truncated stream fails in both decoders: decompress throws
\* PackBitsError, allocates no result and returns nothing.
C3_TruncatedThrows ==
    (Truncated(packed) /\ pc # "packed") =>
        /\ pc = "thrown"
        /\ error
        /\ result = <<>>
        /\ decoded = <<>>

\* a complete replicate run, then a truncated run
C3_Witness ==
    /\ pc = "thrown" /\ error
    /\ Truncated(packed)
    /\ Len(packed) >= 3
    /\ packed[1] > 128

\* the stream without the no-op headers met when it is read header by header
RECURSIVE RemoveNoopsFrom(_, _)
RemoveNoopsFrom(p, i) ==
    IF i >= Len(p) THEN <<>>
    ELSE LET h == p[i + 1]
         IN  IF h < 128 THEN SubSeq(p, i + 1, i + 1 + (h + 1))
                             \o RemoveNoopsFrom(p, i + 1 + (h + 1))
             ELSE IF h > 128 THEN SubSeq(p, i + 1, i + 2) \o RemoveNoopsFrom(p, i + 2)
             ELSE RemoveNoopsFrom(p, i + 1)

\* decompress of src/src/mod.ts as a function of its argument
RECURSIVE DecompressFrom(_, _)
DecompressFrom(d, s) ==
    IF s.readIndex < Len(d) THEN DecompressFrom(d, DecompressIter(d, s)) ELSE s.result

Decompress(d) ==
    LET c == CalculateDecompressedSize(d, 0, 0)
    IN  IF c.threw THEN [threw |-> TRUE, value |-> <<>>]
        ELSE [threw |-> FALSE,
              value |-> DecompressFrom(d, [readIndex |-> 0, writeIndex |-> 0,
                                           result |-> NewArray(c.size)])]

\* C4: the decoder of src/src/mod.ts accepts the no-op header 128 at every run
\* boundary, the end of the stream included: a stream of complete runs with
\* no-op headers between them decodes, to the bytes it decodes to without them.
C4_NoopAccepted ==
    (dec = "modts" /\ ~Truncated(packed) /\ Terminated) =>
        /\ pc = "done"
        /\ ~Decompress(RemoveNoopsFrom(packed, 0)).threw
        /\ decoded = Decompress(RemoveNoopsFrom(packed, 0)).value

\* C5: every run compress wrote (src/src/mod.ts and the context-aware encoder)
\* has a header in 0..127 followed by exactly header + 1 literal bytes, or a header
\* in 129..255 followed by exactly one byte and standing for 257 - header bytes
\* (2..128); the header expression is stored as it is (no wrap-around), 128 is
\* never written, and the runs follow each other without a gap.
RunShape(r) ==
    \/ /\ r.kind = "literal"
       /\ r.header \in 0..127
       /\ r.payload = r.header + 1
       /\ r.length = r.payload
    \/ /\ r.kind = "replicate"
       /\ r.header \in 129..255
       /\ r.payload = 1
       /\ r.length = 257 - r.header
       /\ r.length \in 2..128

\* the run headers stand in the array `a` whose first `w` bytes are written
RunsLaidOut(a, w) ==
    /\ \A i \in 1..Len(runs) :
          /\ Get(a, runs[i].at) = runs[i].header
          /\ runs[i].at = IF i = 1 THEN 0
                          ELSE runs[i - 1].at + 1 + runs[i - 1].payload
    /\ w = IF runs = <<>> THEN 0
           ELSE runs[Len(runs)].at + 1 + runs[Len(runs)].payload

C5_HeadersValid ==
    alg \in {"simple", "context"} =>
        /\ \A r \in RunSet : RunShape(r)
        /\ pc \in {"loop", "outer", "inner"} => RunsLaidOut(result, writeIndex)
        /\ pc \in {"packed", "expand", "done"} => RunsLaidOut(packed, Len(packed))

C5_Witness ==
    /\ alg = "context" /\ pc = "packed"
    /\ \E r \in RunSet : r.header = 127
    /\ \E r \in RunSet : r.header = 255
    /\ \A r \in RunSet : RunShape(r)

\* offset i starts a maximal stretch of equal bytes of d
StretchStart(d, i) ==
    /\ i >= 0 /\ i < Len(d)
    /\ i = 0 \/ Get(d, i - 1) # Get(d, i)

\* the number of equal bytes of d from offset i on
StretchLength(d, i) ==
    LoopExit(1, Len(d) - i, LAMBDA c : i + c < Len(d) /\ Get(d, i + c) = Get(d, i))

\* the run r covers the input byte at offset i
Covers(r, i) == r.start <= i /\ i < r.start + r.length

\* C6: repeat-of-three rule in the buffer-based encoder: for every offset i that
\* starts a maximal stretch of k >= 3 equal bytes, the output has a replicate run
\* that starts at input offset i and covers min(k, 128) bytes, and no literal run
\* contains the byte at offset i.
C6_RepeatOfThree ==
    (alg = "buffer" /\ pc = "packed") =>
        \A i \in 0..(Len(data) - 1) :
            (StretchStart(data, i) /\ StretchLength(data, i) >= 3) =>
                /\ \E r \in RunSet :
                      /\ r.kind = "replicate"
                      /\ r.start = i
                      /\ r.length = Min(StretchLength(data, i), MAX_RUN_LENGTH)
                /\ \A r \in RunSet : r.kind = "literal" => ~Covers(r, i)

\* offset i starts a maximal stretch of exactly two equal bytes
PairAt(d, i) == StretchStart(d, i) /\ StretchLength(d, i) = 2

\* the literal run r was open when the cursor stood at offset i: r begins before
\* i and contains the byte before i.  It then held i - r.start bytes
OpenAt(r, i) ==
    /\ r.kind = "literal"
    /\ r.start < i
    /\ Covers(r, i - 1)

\* both bytes of the pair at i are in the literal run r
BothIn(r, i) == Covers(r, i) /\ Covers(r, i + 1)

\* no replicate run was written for a byte of the pair at i
NoReplicateFor(i) ==
    \A q \in RunSet : q.kind = "replicate" => ~(Covers(q, i) \/ Covers(q, i + 1))

\* C7 as stated: in the context-aware encoder a stretch of exactly two equal
\* bytes met while a literal run is open and holds between 1 and 127 bytes is
\* appended, both bytes, to that literal run, and gets no replicate header.
C7_AbsorbUpTo127 ==
    (alg = "context" /\ pc = "packed") =>
        \A i \in 1..(Len(data) - 1) :
            PairAt(data, i) =>
                \A r \in RunSet :
                    (OpenAt(r, i) /\ i - r.start \in 1..127) =>
                        BothIn(r, i) /\ NoReplicateFor(i)

\* C7 (amended): in the context-aware encoder a stretch of exactly two equal
\* bytes met while a literal run is open and holds between 1 and 126 bytes is
\* appended, both bytes, to that literal run, and gets no replicate header.  When
\* the open run holds 127 bytes, the first byte of the pair fills it to 128, the
\* second byte opens the next literal run, and no replicate header is written
\* for either byte.
C7_AbsorbPair ==
    (alg = "context" /\ pc = "packed") =>
        \A i \in 1..(Len(data) - 1) :
            PairAt(data, i) =>
                \A r \in RunSet :
                    /\ (OpenAt(r, i) /\ i - r.start \in 1..126) =>
                          BothIn(r, i) /\ NoReplicateFor(i)
                    /\ (OpenAt(r, i) /\ i - r.start = 127) =>
                          /\ r.length = MAX_RUN_LENGTH
                          /\ \E q \in RunSet : q.kind = "literal" /\ q.start = i + 1
                          /\ NoReplicateFor(i)

\* a pair absorbed by a literal run that held 126 bytes
C7_Witness ==
    /\ alg = "context" /\ pc = "packed"
    /\ \E i \in 1..(Len(data) - 1) : \E r \in RunSet :
          /\ PairAt(data, i) /\ OpenAt(r, i) /\ i - r.start = 126
          /\ BothIn(r, i) /\ r.length = MAX_RUN_LENGTH

\* no literal run is open at offset i of the buffer-based encoder's input: i is
\* the start of the input, or follows the bytes of a replicate run, or follows
\* the bytes of a literal run of exactly 128 bytes
NoLiteralOpenAt(i) ==
    \/ i = 0
    \/ \E r \in RunSet : r.kind = "replicate" /\ r.start + r.length = i
    \/ \E r \in RunSet :
          r.kind = "literal" /\ r.length = MAX_RUN_LENGTH /\ r.start + r.length = i

\* C8: in the buffer-based encoder a stretch of exactly two equal bytes that
\* begins at offset 0, or right after the bytes of a replicate run, or right
\* after the bytes of a literal run of exactly 128 bytes, is written as the
\* replicate run [0xFF, byte], and no literal run holds either of its bytes.
C8_PairOwnRun ==
    (alg = "buffer" /\ pc = "packed") =>
        \A i \in 0..(Len(data) - 1) :
            (PairAt(data, i) /\ NoLiteralOpenAt(i)) =>
                /\ \E r \in RunSet :
                      /\ r.kind = "replicate" /\ r.start = i /\ r.length = 2
                      /\ Get(packed, r.at) = 255
                      /\ Get(packed, r.at + 1) = Get(data, i)
                /\ \A r \in RunSet :
                      r.kind = "literal" => ~(Covers(r, i) \/ Covers(r, i + 1))

\* 128 bytes, a pair, 128 bytes are written as L128, R2, L128
C8_Witness ==
    /\ alg = "buffer" /\ pc = "packed"
    /\ Len(runs) = 3
    /\ runs[1].kind = "literal" /\ runs[1].length = MAX_RUN_LENGTH
    /\ runs[2].kind = "replicate" /\ runs[2].length = 2
    /\ runs[2].start = MAX_RUN_LENGTH /\ PairAt(data, MAX_RUN_LENGTH)
    /\ runs[3].kind = "literal" /\ runs[3].length = MAX_RUN_LENGTH
    /\ runs[3].start = MAX_RUN_LENGTH + 2

\* the least element of a non-empty set of numbers
Minimum(S) == CHOOSE m \in S : \A x \in S : m <= x

\* the number of equal bytes of d that end at its j-th byte (j >= 1)
StretchBack(d, j) ==
    LoopExit(1, j, LAMBDA c : c < j /\ d[j - c] = d[j])

\* the least length of a packed sequence for the first j bytes of d, given the
\* least lengths t[1..j] of the prefixes of 0..j-1 bytes: the last run is a
\* literal run of 1..128 bytes (1 + length) or a replicate run of 2..128 equal
\* bytes (2)
CostOfPrefix(d, t, j) ==
    Minimum({t[j - l + 1] + 1 + l : l \in 1..Min(MAX_RUN_LENGTH, j)}
            \cup {t[j - l + 1] + 2 : l \in 2..Min(MAX_RUN_LENGTH, StretchBack(d, j))})

\* the least lengths of the prefixes of d, from the table t of the shorter ones
RECURSIVE CostTable(_, _)
CostTable(d, t) ==
    IF Len(t) > Len(d) THEN t ELSE CostTable(d, Append(t, CostOfPrefix(d, t, Len(t))))

\* the least length of a sequence of literal and replicate runs that decodes to d
OptimalCost(d) == CostTable(d, <<0>>)[Len(d) + 1]

\* C9: the context-aware encoder's output has the least length among all
\* sequences of literal runs (1..128 bytes, 1 + length) and replicate runs
\* (2..128 equal bytes, 2) that decode to the input.
C9_MinimalCost ==
    (alg = "context" /\ pc = "packed") => Len(packed) = OptimalCost(data)

\* C10: the encoders that allocate 2 * len(x) bytes (src/src/mod.ts and the
\* context-aware encoder) keep writeIndex within the result array after every
\* write, and return at most 2 * len(x) bytes: no written byte is dropped.
C10_OutputBound ==
    alg \in {"simple", "context"} =>
        /\ pc \in {"loop", "outer", "inner"} =>
              /\ Len(result) = 2 * Len(data)
              /\ writeIndex <= Len(result)
        /\ pc = "inner" =>
              writeIndex + (IF literalCount > 0 THEN 1 + literalCount ELSE 0)
                  <= Len(result)
        /\ pc \in {"packed", "expand", "done"} =>
              /\ Len(packed) <= 2 * Len(data)
              /\ RunsLaidOut(packed, Len(packed))

\* the worst case: every byte of the output buffer is used
C10_Witness ==
    /\ alg \in {"simple", "context"} /\ pc = "packed"
    /\ Len(data) >= 1
    /\ writeIndex = 2 * Len(data)
    /\ Len(packed) = 2 * Len(data)

\* the caller's buffer is shorter than 1.5 * len(data), that is, than its ceiling
ShortBuffer == supplied /\ 2 * Len(buffer) < 3 * Len(data)

\* C11: the buffer check of the buffer-based compress: with a buffer shorter than
\* ceil(1.5 * len(data)) the call throws PackBitsError and leaves every byte of
\* the buffer as the caller passed it; with a buffer of at least that length (or
\* none) the call never throws, and what it returns is the first iWrite bytes of
\* that buffer.
C11_BufferCheck ==
    alg = "buffer" =>
        /\ ShortBuffer =>
              /\ pc \in {"call", "thrown"}
              /\ pc = "thrown" => error
              /\ buffer = [i \in 1..Len(buffer) |-> 255]
              /\ packed = <<>>
        /\ ~ShortBuffer =>
              /\ ~Failed /\ ~error
              /\ pc \in {"packed", "expand", "done"} =>
                    packed = Slice(buffer, Len(packed))
              /\ (pc = "packed" /\ Len(data) >= 2) => Len(packed) = iWrite

\* a buffer one byte too short was refused
C11_Witness ==
    /\ alg = "buffer" /\ pc = "thrown" /\ error
    /\ ShortBuffer
    /\ 2 * (Len(buffer) + 1) >= 3 * Len(data)
    /\ Len(data) > MAX_RUN_LENGTH

\* every byte of d is the same byte
AllSame(d) == \A i \in 1..Len(d) : d[i] = d[1]

\* q replicate runs [0x81, b]
FullRuns(b, q) == [i \in 1..(2 * q) |-> IF i % 2 = 1 THEN 129 ELSE b]

\* the packed form of k copies of b that C12 states
SplitRuns(b, k) ==
    LET r == k % MAX_RUN_LENGTH
    IN  FullRuns(b, k \div MAX_RUN_LENGTH)
            \o (IF r >= 2 THEN <<257 - r, b>> ELSE IF r = 1 THEN <<0, b>> ELSE <<>>)

\* C12: k >= 1 copies of one byte b are written as floor(k / 128) replicate runs
\* [0x81, b], then the remainder r = k mod 128 as [257 - r, b] when r >= 2, as
\* the literal run [0x00, b] when r = 1, and as nothing when r = 0 (src/src/mod.ts
\* and the context-aware encoder).
C12_IdenticalSplit ==
    (alg \in {"simple", "context"} /\ pc = "packed" /\ Len(data) >= 1 /\ AllSame(data)) =>
        packed = SplitRuns(data[1], Len(data))

\* 257 copies: two full runs and a literal run of one byte
C12_Witness ==
    /\ alg = "simple" /\ pc = "packed"
    /\ AllSame(data)
    /\ Len(data) = 2 * MAX_RUN_LENGTH + 1
    /\ packed = <<129, data[1], 129, data[1], 0, data[1]>>

\* no two adjacent bytes of d are equal
NoAdjacentEqual(d) == \A i \in 1..(Len(d) - 1) : d[i] # d[i + 1]

\* d cut into literal runs of 128 bytes and a last one of the remaining bytes:
\* every block of 129 packed bytes is a header and the 128 bytes it covers
LiteralSplit(d) ==
    [p \in 1..(Len(d) + (Len(d) + MAX_RUN_LENGTH - 1) \div MAX_RUN_LENGTH) |->
        LET block == (p - 1) \div (MAX_RUN_LENGTH + 1)
            off == (p - 1) % (MAX_RUN_LENGTH + 1)
        IN  IF off = 0
            THEN Min(MAX_RUN_LENGTH, Len(d) - MAX_RUN_LENGTH * block) - 1
            ELSE d[MAX_RUN_LENGTH * block + off]]

\* C13: in the buffer-based encoder an input of n bytes with no two adjacent
\* bytes equal is written as floor(n / 128) literal runs of 128 bytes (header
\* 0x7F) and, when n mod 128 # 0, one literal run of n mod 128 bytes: no
\* replicate run, and a split after every 128th input byte.
C13_LiteralSplit ==
    (alg = "buffer" /\ pc = "packed" /\ NoAdjacentEqual(data)) =>
        /\ packed = LiteralSplit(data)
        /\ Len(runs) = (Len(data) + MAX_RUN_LENGTH - 1) \div MAX_RUN_LENGTH
        /\ \A j \in 1..Len(runs) :
              /\ runs[j].kind = "literal"
              /\ runs[j].start = MAX_RUN_LENGTH * (j - 1)
              /\ runs[j].length = Min(MAX_RUN_LENGTH,
                                      Len(data) - MAX_RUN_LENGTH * (j - 1))

\* 257 bytes: two runs of 128 bytes and a run of one byte
C13_Witness ==
    /\ alg = "buffer" /\ pc = "packed"
    /\ NoAdjacentEqual(data)
    /\ Len(data) = 2 * MAX_RUN_LENGTH + 1
    /\ Len(runs) = 3
    /\ runs[2].header = 127 /\ runs[3].header = 0
    /\ Len(packed) = Len(data) + 3

\* compress of src/src/mod.ts as a function of its argument: the loop from the
\* state s on, then the slice it returns
RECURSIVE SimpleFrom(_, _)
SimpleFrom(d, s) ==
    IF s.readIndex < Len(d) THEN SimpleFrom(d, SimpleIter(d, s))
    ELSE Slice(s.result, s.writeIndex)

SimpleCompress(d) ==
    SimpleFrom(d, [readIndex |-> 0, writeIndex |-> 0,
                   result |-> NewArray(ResultCapacity(Len(d)))])

\* C14: on every input the output of the context-aware encoder is at most as
\* long as the output of the encoder of src/src/mod.ts, which writes every
\* repeat of two or more bytes as a replicate run.
C14_ContextDominates ==
    (alg = "context" /\ pc = "packed") => Len(packed) <= Len(SimpleCompress(data))

\* C15: the two passes of decompress of src/src/mod.ts agree: when the size pass
\* succeeds, the expansion pass reads only indices below len(packed), writes no
\* index outside the result and none twice, and ends with its read index at
\* len(packed), its write index at the computed size, and every index of the
\* result written exactly once.
C15_PassesAgree ==
    (dec = "modts" /\ pc \in {"expand", "done"}) =>
        /\ Len(result) = CalculateDecompressedSize(packed, 0, 0).size
        /\ touched.lastRead < Len(packed)
        /\ ~touched.outside
        /\ \A i \in 1..Len(touched.writes) :
              touched.writes[i] = (IF i - 1 < writeIndex THEN 1 ELSE 0)
        /\ readIndex <= Len(packed)
        /\ writeIndex <= Len(result)
        /\ pc = "done" =>
              /\ readIndex = Len(packed)
              /\ writeIndex = Len(result)
              /\ Len(touched.writes) = Len(result)
              /\ decoded = result

\* a literal run, a no-op header and a replicate run were expanded
C15_Witness ==
    /\ dec = "modts" /\ alg = "none" /\ pc = "done"
    /\ \E i \in 1..Len(packed) : packed[i] = 128
    /\ Len(result) >= 3
    /\ touched.lastRead = Len(packed) - 1
    /\ \A i \in 1..Len(result) : touched.writes[i] = 1

\* the buffer holds exactly ceil(1.5 * len(data)) bytes
ExactBuffer ==
    /\ 2 * Len(buffer) >= 3 * Len(data)
    /\ 2 * Len(buffer) <= 3 * Len(data) + 1

\* C16: in-place safety of the buffer-based compress with a buffer of exactly
\* ceil(1.5 * len(data)) bytes: in the write phase the packed bytes, written
\* upward from index 0, stay below the stacked headers not yet read (the indices
\* iStack+1..iStackRead) and inside the buffer; and during collection, whenever
\* countLastLiteral > 0, buffer[iStack + 1] is the literal header
\* countLastLiteral - 1.
C16_InPlaceSafe ==
    (alg = "buffer" /\ ExactBuffer) =>
        /\ pc # "rangeError"
        /\ pc = "write" =>
              /\ iWrite <= Len(buffer)
              /\ iStackRead > iStack => iWrite <= iStack + 1
        /\ (pc = "collect" /\ countLastLiteral > 0) =>
              /\ Get(buffer, iStack + 1) = countLastLiteral - 1
              /\ countLastLiteral <= MAX_RUN_LENGTH

\* the closest the two come: one header is still unread, and the packed bytes
\* written so far end one index below it
C16_Witness ==
    /\ alg = "buffer" /\ pc = "write" /\ ExactBuffer
    /\ supplied
    /\ iStackRead = iStack + 1
    /\ iWrite = iStack
    /\ Len(runs) >= 2

====
